---- MODULE Spec2Model ----
(***************************************************************************)
(* A model of logsearch.py: the batch pass, the follow-mode tail engine    *)
(* (_tail_files) and the record sink (emit_record).                        *)
(*                                                                         *)
(* Files are sequences of one-character strings.  A name of the directory  *)
(* maps to an inode number (0: no such file) and the inode's data; a file  *)
(* handle keeps the inode it opened, so a handle on an unlinked inode      *)
(* still reads that inode's data (kept in orphan).                         *)
(***************************************************************************)
EXTENDS Integers, Sequences, FiniteSets, TLC

\* ---------------------------------------------------------------- bounds
MaxLen == 3
MaxOps == 3
MaxRecords == 3

\* ------------------------------------------------------------- the files
NL == "\n"
FileOrder == <<"a.log", "b.log", "c.gz", "d.log">>
Names == {FileOrder[i] : i \in 1..Len(FileOrder)}
\* the include globs match every name; exists-and-is-file at resolution time
InitialFiles == {"a.log", "b.log", "c.gz"}
InitialData == [f \in Names |-> IF f = "c.gz" THEN <<"x", NL>> ELSE <<>>]

IsGz(f) == f = "c.gz"

Min(a, b) == IF a < b THEN a ELSE b

\* find_files: the existing files among the matches, deduplicated, sorted
find_files(existing) == SelectSeq(FileOrder, LAMBDA f : f \in existing)

\* str.rstrip("\\n"): the argument is the two characters backslash and n
StripSet == {"\\", "n"}
RECURSIVE rstrip(_)
rstrip(s) ==
  IF s # <<>> /\ s[Len(s)] \in StripSet
  THEN rstrip(SubSeq(s, 1, Len(s) - 1))
  ELSE s

\* The lines of a text read with newline="": each line keeps its terminator,
\* a last unterminated piece is a line too.
FirstNL(s) ==
  IF \E i \in 1..Len(s) : s[i] = NL
  THEN CHOOSE i \in 1..Len(s) : s[i] = NL /\ \A j \in 1..(i - 1) : s[j] # NL
  ELSE 0
RECURSIVE readlines(_)
readlines(s) ==
  IF s = <<>> THEN <<>>
  ELSE IF FirstNL(s) = 0 THEN <<s>>
  ELSE <<SubSeq(s, 1, FirstNL(s))>> \o readlines(SubSeq(s, FirstNL(s) + 1, Len(s)))

\* _read_new_lines(fp, pos) on a handle whose inode holds data
read_new_lines(data, pos) ==
  LET raw == readlines(SubSeq(data, pos + 1, Len(data)))
  IN  [new_pos |-> IF pos >= Len(data) THEN pos ELSE Len(data),
       raw     |-> raw,
       lines   |-> [i \in 1..Len(raw) |-> rstrip(raw[i])]]

VARIABLES
  fs,       \* name -> [ino, data]: the directory and the inodes it names
  nextIno,  \* the next inode number to hand out
  orphan,   \* name -> data of the unlinked inode a tail handle still holds
  pc,       \* main's position: "batch", "open", "poll", "sweep", "done"
  files,    \* the FileSet resolved at start
  idx,      \* position of the batch pass / the open loop in files
  state,    \* _tail_files.state: watched name -> cursor
  fhs,      \* name -> number of handles the tail engine holds open on it
  todo,     \* the rest of list(state.items()) in the running sweep
  last,     \* what the step just taken did: its operation, file, result and
            \*   the per-line calls it made
  hist,     \* name -> line numbers handed to the pipeline, with the marks
            \*   "open" (tail cursor opened) and "reset" (reopened)
  intact,   \* name -> not truncated, removed or created since its cursor opened
  mark,     \* name -> size of the handle's data at the end of its last sweep
  old,      \* name -> leading bytes of the handle's data present at open
  batched,  \* name -> leading bytes of the data read by the batch pass
  cov,      \* name -> offset up to which the handle's data were handed to
            \*   the callback without gap or repeat since open (-1: broken)
  ops,      \* number of file-system operations of the environment so far
  sink,     \* main's output state: out_format, what was written to out_fh
            \*   (or printed), csv_writer, dynamic_fields, matched, and the
            \*   record and outcome of the latest emit_record
  call,     \* the latest application of match_line or within_window: its
            \*   arguments and what it returned or raised
  run       \* main seen line by line: its position, configuration, output
            \*   file, total, exit status and summary

vars == <<fs, nextIno, orphan, pc, files, idx, state, fhs, todo, last, hist,
          intact, mark, old, batched, cov, ops, sink, call, run>>

Watched == DOMAIN state

\* the data a cursor's handle reads: its inode's
HandleData(f, st) == IF st.fh = fs[f].ino THEN fs[f].data ELSE orphan[f]

Step(op, f, result, reopened, cs) ==
  [op |-> op, file |-> f, result |-> result, reopened |-> reopened,
   calls |-> cs]
Idle == Step("none", "", "", FALSE, <<>>)

TailInit ==
  /\ fs = [f \in Names |->
             IF f \in InitialFiles THEN [ino |-> 1, data |-> InitialData[f]]
             ELSE [ino |-> 0, data |-> <<>>]]
  /\ nextIno = 2
  /\ orphan = [f \in Names |-> <<>>]
  /\ pc = "batch"
  /\ files = find_files(InitialFiles)
  /\ idx = 1
  /\ state = <<>>
  /\ fhs = [f \in Names |-> 0]
  /\ todo = <<>>
  /\ last = Idle
  /\ hist = [f \in Names |-> <<>>]
  /\ intact = [f \in Names |-> FALSE]
  /\ mark = [f \in Names |-> 0]
  /\ old = [f \in Names |-> 0]
  /\ batched = [f \in Names |-> 0]
  /\ cov = [f \in Names |-> 0]
  /\ ops = 0

\* ------------------------------------------------------- the record sink
\* Values are integers or strings; a dict is the sequence of its items in
\* insertion order.
IntV(n) == [t |-> "int", i |-> n, s |-> ""]
StrV(x) == [t |-> "str", i |-> 0, s |-> x]
Keys(d) == {d[i][1] : i \in 1..Len(d)}
Get(d, k, default) ==
  IF k \in Keys(d) THEN d[CHOOSE i \in 1..Len(d) : d[i][1] = k][2] ELSE default
\* d[k] = v
Set(d, k, v) ==
  IF k \in Keys(d)
  THEN [i \in 1..Len(d) |-> IF d[i][1] = k THEN <<k, v>> ELSE d[i]]
  ELSE Append(d, <<k, v>>)
\* d.update(e)
RECURSIVE Update(_, _)
Update(d, e) ==
  IF e = <<>> THEN d ELSE Update(Set(d, e[1][1], e[1][2]), Tail(e))

\* the field names the field patterns' named groups produce, sorted
FieldOrder == <<"a", "b", "line">>
FieldNames == {FieldOrder[i] : i \in 1..Len(FieldOrder)}
sorted(S) == SelectSeq(FieldOrder, LAMBDA k : k \in S)
\* the records process_line hands to emit_record
ExtraFields(S) == [i \in 1..Len(sorted(S)) |-> <<sorted(S)[i], StrV("v")>>]
Records ==
  [fpath : {"a.log"}, lineno : {1}, ts_out : {""}, reason : {"kw:x"},
   line : {"L"}, extra_fields : {ExtraFields(S) : S \in SUBSET FieldNames}]

\* json.dumps(rec, ensure_ascii=False): one JSON object, with its members
\* in the dict's order, an int as a number and a str as a string; a newline
\* inside a string is escaped, so the text holds no newline character
JsonValue(v) ==
  IF v.t = "int" THEN [j |-> "number", i |-> v.i, s |-> ""]
  ELSE [j |-> "string", i |-> 0, s |-> v.s]
json_dumps(d) ==
  [json |-> [i \in 1..Len(d) |-> <<d[i][1], JsonValue(d[i][2])>>]]
\* json.loads of such a text: the dict of its members
PyValue(w) == IF w.j = "number" THEN IntV(w.i) ELSE StrV(w.s)
json_loads(o) ==
  Update(<<>>, [i \in 1..Len(o.json) |-> <<o.json[i][1], PyValue(o.json[i][2])>>])

\* "\\n" in the source: a backslash and the letter n
BackslashN == <<[ch |-> "\\"], [ch |-> "n"]>>

\* csv.DictWriter(out_fh, fieldnames).writerow(row): extrasaction is "raise",
\* so a key outside fieldnames raises ValueError; restval is ""
WrongFields(fieldnames, row) ==
  Keys(row) \ {fieldnames[i] : i \in 1..Len(fieldnames)}
CsvRow(fieldnames, row) ==
  [csv |-> [i \in 1..Len(fieldnames) |-> Get(row, fieldnames[i], StrV(""))]]
CsvHeader(fieldnames) ==
  [csv |-> [i \in 1..Len(fieldnames) |-> StrV(fieldnames[i])]]

NoWriter == <<"None">>
SinkInit(format) ==
  [out_format |-> format, out |-> <<>>, csv_writer |-> NoWriter,
   dynamic_fields |-> {}, matched |-> 0, status |-> "open",
   rec |-> <<>>, raised |-> FALSE]

\* emit_record(fpath, lineno, ts_out, reason, line, extra_fields) on sink k
emit_record(k, rec) ==
  LET m == [k EXCEPT !.matched = @ + 1, !.rec = <<rec>>, !.raised = FALSE]
  IN
  IF k.out_format = "console" THEN
    [m EXCEPT !.out = Append(@, [console |-> rec])]
  ELSE IF k.out_format = "csv" THEN
    LET dyn == k.dynamic_fields \cup Keys(rec.extra_fields)
        fieldnames == <<"file", "lineno", "timestamp", "reason">>
                      \o sorted(dyn) \o <<"line">>
        first == k.csv_writer = NoWriter
        writer == IF first THEN fieldnames ELSE k.csv_writer
        row == Update(<<<<"file", StrV(rec.fpath)>>, <<"lineno", IntV(rec.lineno)>>,
                        <<"timestamp", StrV(rec.ts_out)>>,
                        <<"reason", StrV(rec.reason)>>, <<"line", StrV(rec.line)>>>>,
                      rec.extra_fields)
        headed == IF first THEN Append(k.out, CsvHeader(writer)) ELSE k.out
    IN  IF WrongFields(writer, row) # {}
        THEN [m EXCEPT !.dynamic_fields = dyn, !.csv_writer = writer,
                       !.out = headed, !.raised = TRUE]
        ELSE [m EXCEPT !.dynamic_fields = dyn, !.csv_writer = writer,
                       !.out = Append(headed, CsvRow(writer, row))]
  ELSE
    LET d == <<<<"file", StrV(rec.fpath)>>, <<"lineno", IntV(rec.lineno)>>,
               <<"timestamp", StrV(rec.ts_out)>>, <<"reason", StrV(rec.reason)>>,
               <<"line", StrV(rec.line)>>>>
        d2 == IF rec.extra_fields # <<>> THEN Update(d, rec.extra_fields) ELSE d
    IN  [m EXCEPT !.out = @ \o <<json_dumps(d2)>> \o BackslashN]

\* no function applied yet; main not run line by line
NoCall == [fn |-> "none"]
NoRun == [pc |-> "none"]
\* a run with "--format jsonl --out FILE": the output is a file of its own
Init ==
  /\ TailInit /\ sink = SinkInit("jsonl")
  /\ call = NoCall /\ run = NoRun

\* ------------------------------------------------------- the environment
\* Other processes append to, truncate, unlink and create the log files.
\* what one write appends: a character of a line, or the end of a line
\* (writes with no sweep between them make the longer chunks)
Chunks == {<<"x">>, <<NL>>}
\* a.log is the log being written, unlinked and created again; b.log stays
\* as it is; d.log appears after the start
Written == {"a.log"}
Unlinked == {"a.log"}
Created == {"a.log", "d.log"}

\* the tail handle (if any) is on the inode the name names now
Attached(f) == f \in Watched => state[f].fh = fs[f].ino

AppendChunk(f, chunk) ==
  /\ pc # "done" /\ ops < MaxOps
  /\ fs[f].ino # 0
  /\ Len(fs[f].data) + Len(chunk) <= MaxLen
  /\ fs' = [fs EXCEPT ![f].data = @ \o chunk]
  /\ ops' = ops + 1
  /\ last' = Idle
  /\ UNCHANGED <<nextIno, orphan, pc, files, idx, state, fhs, todo, hist,
                 intact, mark, old, batched, cov,
                 sink, call, run>>

Truncate(f, t) ==
  /\ pc # "done" /\ ops < MaxOps
  /\ fs[f].ino # 0
  /\ t < Len(fs[f].data)
  /\ fs' = [fs EXCEPT ![f].data = SubSeq(@, 1, t)]
  /\ intact' = [intact EXCEPT ![f] = FALSE]
  /\ old' = [old EXCEPT ![f] = IF Attached(f) THEN Min(@, t) ELSE @]
  /\ batched' = [batched EXCEPT ![f] = IF Attached(f) THEN Min(@, t) ELSE @]
  /\ ops' = ops + 1
  /\ last' = Idle
  /\ UNCHANGED <<nextIno, orphan, pc, files, idx, state, fhs, todo, hist,
                 mark, cov,
                 sink, call, run>>

Remove(f) ==
  /\ pc # "done" /\ ops < MaxOps
  /\ fs[f].ino # 0
  /\ fs' = [fs EXCEPT ![f] = [ino |-> 0, data |-> <<>>]]
  /\ orphan' = [orphan EXCEPT ![f] =
                  IF f \in Watched /\ state[f].fh = fs[f].ino
                  THEN fs[f].data ELSE @]
  /\ intact' = [intact EXCEPT ![f] = FALSE]
  /\ batched' = [batched EXCEPT ![f] = IF f \in Watched THEN @ ELSE 0]
  /\ ops' = ops + 1
  /\ last' = Idle
  /\ UNCHANGED <<nextIno, pc, files, idx, state, fhs, todo, hist, mark, old,
                 cov,
                 sink, call, run>>

Create(f) ==
  /\ pc # "done" /\ ops < MaxOps
  /\ fs[f].ino = 0
  /\ fs' = [fs EXCEPT ![f] = [ino |-> nextIno, data |-> <<>>]]
  /\ nextIno' = nextIno + 1
  /\ intact' = [intact EXCEPT ![f] = FALSE]
  /\ ops' = ops + 1
  /\ last' = Idle
  /\ UNCHANGED <<orphan, pc, files, idx, state, fhs, todo, hist, mark, old,
                 batched, cov,
                 sink, call, run>>

\* ------------------------------------------------------- the batch pass
\* the calls for the raw lines raw[1..n] that start at offset from, numbered
\* after lineno
RECURSIVE Offset(_, _)
Offset(raw, i) == IF i <= 1 THEN 0 ELSE Offset(raw, i - 1) + Len(raw[i - 1])
LineCalls(f, raw, n, from, lineno) ==
  [i \in 1..n |-> [file |-> f, no |-> lineno + i, text |-> rstrip(raw[i]),
                   from |-> from + Offset(raw, i), len |-> Len(raw[i])]]
\* what hist records: the line numbers of calls, and the two marks
Numbers(cs) == [i \in 1..Len(cs) |-> [kind |-> "line", no |-> cs[i].no]]
OpenMark == [kind |-> "open", no |-> 0]
ResetMark == [kind |-> "reset", no |-> 0]

\* iter_lines for one file: "for idx, line in enumerate(fh, start=1)" yields
\* j lines; j is less than the number of lines when the read fails after j
\* lines, and 0 when the file cannot be opened
iter_lines(f, j) ==
  LineCalls(f, readlines(fs[f].data), j, 0, 0)

\* a variant that gives up the pass at a failure; C19 tells the two apart
NextFile_Abort(i, result) ==
  IF result = "ok" THEN i + 1 ELSE Len(files) + 1
\* "for f in files: try: ... except Exception as e: print([WARN] ...)": the
\* loop goes on with the next file after a file that failed as after one
\* that was read to its end
NextFile(i, result) == i + 1

\* "for f, lineno, line in iter_lines(files, encoding)", one file of it
BatchFile ==
  /\ pc = "batch" /\ idx <= Len(files)
  /\ LET f == files[idx]
         n == IF fs[f].ino = 0 THEN 0 ELSE Len(readlines(fs[f].data))
     IN  \E j \in 0..n :
           /\ last' = Step("batch", f,
                           IF fs[f].ino = 0 THEN "open_error"
                           ELSE IF j < n THEN "read_error" ELSE "ok",
                           FALSE, iter_lines(f, j))
           /\ hist' = [hist EXCEPT ![f] = @ \o Numbers(iter_lines(f, j))]
           /\ batched' = [batched EXCEPT ![f] =
                            Offset(readlines(fs[f].data), j + 1)]
  /\ idx' = NextFile(idx, last'.result)
  /\ UNCHANGED <<fs, nextIno, orphan, pc, files, state, fhs, todo, intact,
                 mark, old, cov, ops,
                 sink, call, run>>

\* "if out_fh and out_fh is not sys.stdout: out_fh.close()"
close(k) == [k EXCEPT !.status = "closed"]
\* the end of main: the output is closed and the [DONE] summary is printed
Finished == Step("end", "", "summary", FALSE, <<>>)

\* the end of the initial pass; args.follow decides what follows
BatchDone ==
  /\ pc = "batch" /\ idx > Len(files)
  /\ \E follow \in BOOLEAN :
       IF follow
       THEN pc' = "open" /\ last' = Idle /\ sink' = sink
       ELSE pc' = "done" /\ last' = Finished /\ sink' = close(sink)
  /\ idx' = 1
  /\ UNCHANGED <<fs, nextIno, orphan, files, state, fhs, todo, hist, intact,
                 mark, old, batched, cov, ops,
                 call, run>>

\* ------------------------------------------------------ the tail engine
None == [fh |-> 0, pos |-> 0, lineno |-> 0, stat |-> <<0, 0>>]

\* a variant of _open without the ".gz" test; C6 tells the two apart
open_Gzip(f, ok) ==
  IF fs[f].ino = 0 \/ ~ok
  THEN None
  ELSE [fh |-> fs[f].ino, pos |-> Len(fs[f].data), lineno |-> 0,
        stat |-> <<fs[f].ino, Len(fs[f].data)>>]
\* a variant of _open without the seek to the end; C7 tells the two apart
open_AtStart(f, ok) ==
  IF IsGz(f) \/ fs[f].ino = 0 \/ ~ok
  THEN None
  ELSE [fh |-> fs[f].ino, pos |-> 0, lineno |-> 0,
        stat |-> <<fs[f].ino, Len(fs[f].data)>>]

\* _tail_files._open: None for a gzip name and when opening raises (the file
\* is missing, or ok is false: any other error); else a cursor at the end
open_(f, ok) ==
  IF IsGz(f) \/ fs[f].ino = 0 \/ ~ok
  THEN None
  ELSE [fh |-> fs[f].ino, pos |-> Len(fs[f].data), lineno |-> 0,
        stat |-> <<fs[f].ino, Len(fs[f].data)>>]

\* the initial loop "for f in files: st = _open(f); if st: state[f] = st"
OpenFile ==
  /\ pc = "open" /\ idx <= Len(files)
  /\ LET f == files[idx] IN
     \E ok \in BOOLEAN :
       LET st == open_(f, ok) IN
       /\ last' = Step("open", f, IF st # None THEN "ok" ELSE "unopened",
                       FALSE, <<>>)
       /\ IF st # None
          THEN /\ state' = (f :> st) @@ state
               /\ fhs' = [fhs EXCEPT ![f] = @ + 1]
               /\ hist' = [hist EXCEPT ![f] = Append(@, OpenMark)]
               /\ intact' = [intact EXCEPT ![f] = TRUE]
               /\ mark' = [mark EXCEPT ![f] = Len(fs[f].data)]
               /\ old' = [old EXCEPT ![f] = Len(fs[f].data)]
               /\ cov' = [cov EXCEPT ![f] = Len(fs[f].data)]
          ELSE UNCHANGED <<state, fhs, hist, intact, mark, old, cov>>
  /\ idx' = idx + 1
  /\ UNCHANGED <<fs, nextIno, orphan, pc, files, todo, batched, ops,
                 sink, call, run>>

OpenDone ==
  /\ pc = "open" /\ idx > Len(files)
  /\ pc' = "poll"
  /\ last' = Idle
  /\ UNCHANGED <<fs, nextIno, orphan, files, idx, state, fhs, todo, hist,
                 intact, mark, old, batched, cov, ops,
                 sink, call, run>>

\* list(state.items()): the watched names in insertion order, which is the
\* order of files
Items == SelectSeq(files, LAMBDA f : f \in Watched)

\* a variant that polls only while a file is watched; C16 tells the two apart
KeepPolling_WhileWatched(st) == DOMAIN st # {}
\* the condition of the polling loop, "while True"
KeepPolling(st) == TRUE

\* "while True: for f, st in list(state.items())"; a loop whose condition is
\* false returns from _tail_files, and main goes on to its end
StartSweep ==
  /\ pc = "poll"
  /\ IF KeepPolling(state)
     THEN todo' = Items /\ pc' = "sweep" /\ last' = Idle /\ sink' = sink
     ELSE todo' = <<>> /\ pc' = "done" /\ last' = Finished
          /\ sink' = close(sink)
  /\ UNCHANGED <<fs, nextIno, orphan, files, idx, state, fhs, hist, intact,
                 mark, old, batched, cov, ops,
                 call, run>>

\* time.sleep(poll_interval) at the end of a pass
Sleep ==
  /\ pc = "sweep" /\ todo = <<>>
  /\ pc' = "poll"
  /\ last' = Idle
  /\ UNCHANGED <<fs, nextIno, orphan, files, idx, state, fhs, todo, hist,
                 intact, mark, old, batched, cov, ops,
                 sink, call, run>>

\* a variant with the comparison reversed; C2 tells the two apart
Shrunk_Grown(cur, st) == cur[2] > st.stat[2]
\* a variant that also reopens at an unchanged size; C18 tells the two apart
Shrunk_OrSame(cur, st) == cur[2] <= st.stat[2]
\* "if cur_stat.st_size < st["stat"][1]"
Shrunk(cur, st) == cur[2] < st.stat[2]

\* the cursor after the lines r of a read were handed to the callback, which
\* raised at its k-th call (k = 0: no call raised)
Advance(st, cur, r, k) ==
  IF Len(r.lines) > 0
  THEN [st EXCEPT !.pos = r.new_pos,
                  !.stat = <<cur[1], r.new_pos>>,
                  !.lineno = @ + (IF k = 0 THEN Len(r.lines) ELSE k)]
  ELSE [st EXCEPT !.stat = cur]

\* a variant that gives up the file at any error; C21 tells the two apart
Warned_Drops(f, st) == [g \in Watched \ {f} |-> state[g]]
\* "except Exception as e: print([WARN] Tail error ...)": the entry of the
\* file stays in state, with the cursor st the sweep had reached
Warned(f, st) == [state EXCEPT ![f] = st]

\* a variant that keeps the entry; C5 tells the two apart
Drop_Keeps(f) == state
\* "del state[f]"
Drop(f) == [g \in Watched \ {f} |-> state[g]]

\* cov after the calls cs
Covered(c, cs) ==
  IF cs = <<>> THEN c
  ELSE IF c = cs[1].from THEN cs[Len(cs)].from + cs[Len(cs)].len
  ELSE -1

\* the body of the for loop for one watched file
SweepFile ==
  /\ pc = "sweep" /\ todo # <<>>
  /\ todo' = Tail(todo)
  /\ LET f == Head(todo)
         st == state[f]
         cur == <<fs[f].ino, Len(fs[f].data)>>
     IN
     \/ \* f.stat() raises FileNotFoundError: close, del state[f]
        /\ fs[f].ino = 0
        /\ state' = Drop(f)
        /\ fhs' = [fhs EXCEPT ![f] = @ - 1]
        /\ last' = Step("sweep", f, "vanished", FALSE, <<>>)
        /\ UNCHANGED <<hist, intact, mark, old, batched, cov>>
     \/ \* f.stat() raises another error: warning
        /\ last' = Step("sweep", f, "stat_error", FALSE, <<>>)
        /\ mark' = [mark EXCEPT ![f] = Len(HandleData(f, st))]
        /\ state' = Warned(f, st)
        /\ UNCHANGED <<fhs, hist, intact, old, batched, cov>>
     \/ \* truncation/rotation seen, and _open fails: del state[f]; continue
        /\ fs[f].ino # 0 /\ Shrunk(cur, st)
        /\ open_(f, FALSE) = None
        /\ state' = Drop(f)
        /\ fhs' = [fhs EXCEPT ![f] = @ - 1]
        /\ last' = Step("sweep", f, "unopened", TRUE, <<>>)
        /\ UNCHANGED <<hist, intact, mark, old, batched, cov>>
     \/ \* the stat succeeds, a reopen (if any) too
        /\ fs[f].ino # 0
        /\ LET reopen == Shrunk(cur, st)
               st1 == IF reopen THEN open_(f, TRUE) ELSE st
               data == HandleData(f, st1)
               r == read_new_lines(data, st1.pos)
           IN
           /\ reopen => st1 # None
           /\ intact' = [intact EXCEPT ![f] = IF reopen THEN TRUE ELSE @]
           /\ old' = [old EXCEPT ![f] =
                        IF reopen THEN Len(fs[f].data) ELSE @]
           /\ batched' = [batched EXCEPT ![f] =
                            IF reopen /\ st.fh # fs[f].ino THEN 0 ELSE @]
           /\ mark' = [mark EXCEPT ![f] = Len(data)]
           /\ fhs' = fhs
           /\ \/ \* the read raises: warning
                 /\ state' = Warned(f, st1)
                 /\ last' = Step("sweep", f, "read_error", reopen, <<>>)
              \/ \* the read succeeds; the callback raises at call k, or never
                 \E k \in 0..Len(r.lines) :
                   /\ state' = IF k = 0
                               THEN [state EXCEPT ![f] = Advance(st1, cur, r, k)]
                               ELSE Warned(f, Advance(st1, cur, r, k))
                   /\ last' = Step("sweep", f,
                                   IF k = 0 THEN "ok" ELSE "raised", reopen,
                                   LineCalls(f, r.raw,
                                             IF k = 0 THEN Len(r.raw) ELSE k,
                                             st1.pos, st1.lineno))
           /\ hist' = [hist EXCEPT ![f] =
                         (IF reopen THEN Append(@, ResetMark) ELSE @)
                         \o Numbers(last'.calls)]
           /\ cov' = [cov EXCEPT ![f] =
                        Covered(IF reopen THEN Len(fs[f].data) ELSE @,
                                last'.calls)]
  /\ UNCHANGED <<fs, nextIno, orphan, pc, files, idx, ops,
                 sink, call, run>>

\* KeyboardInterrupt leaves _tail_files and is caught in main ("except
\* KeyboardInterrupt: pass"), which closes the output and prints the summary
Cancelled == Step("cancel", "", "summary", FALSE, <<>>)
Cancel ==
  /\ pc \in {"open", "poll", "sweep"}
  /\ pc' = "done"
  /\ todo' = <<>>
  /\ last' = Cancelled
  /\ sink' = close(sink)
  /\ UNCHANGED <<fs, nextIno, orphan, files, idx, state, fhs, hist, intact,
                 mark, old, batched, cov, ops,
                 call, run>>

Env ==
  \/ \E f \in Written, chunk \in Chunks : AppendChunk(f, chunk)
  \/ \E f \in Written, t \in 0..(MaxLen - 1) : Truncate(f, t)
  \/ \E f \in Unlinked : Remove(f)
  \/ \E f \in Created : Create(f)

Next ==
  \/ Env
  \/ BatchFile
  \/ BatchDone
  \/ OpenFile
  \/ OpenDone
  \/ StartSweep
  \/ SweepFile
  \/ Sleep
  \/ Cancel

Spec == Init /\ [][Next]_vars

\* ====================================================== the properties
\* the step is the sweep of watched file f
SweepStep(f) ==
  pc = "sweep" /\ todo # <<>> /\ Head(todo) = f /\ last'.op = "sweep"

\* what was appended to f since the end of its previous sweep (or its open)
Appended(f) == SubSeq(fs[f].data, mark[f] + 1, Len(fs[f].data))
CompleteLines(s) == s = <<>> \/ s[Len(s)] = NL

\* cs are calls for file f on the first n of the lines ls, which start at
\* offset from, in order, numbered c+1 .. c+n
DeliversLines(cs, f, c, from, ls, n) ==
  /\ Len(cs) = n
  /\ \A i \in 1..n :
       /\ cs[i].file = f
       /\ cs[i].no = c + i
       /\ cs[i].from = from + Offset(ls, i)
       /\ cs[i].len = Len(ls[i])

\* C1: N complete lines appended to a watched file (neither truncated nor
\* removed) after a sweep that read the file to its end make the next sweep
\* (its stat and read succeeding) call the callback exactly N times, on
\* those lines in append order, numbered c+1 .. c+N, c being the line
\* counter the earlier sweep left.
C1_AsStated ==
  [][\A f \in Names :
       (/\ SweepStep(f) /\ intact[f] /\ CompleteLines(Appended(f))
        /\ state[f].pos = mark[f]
        /\ last'.result \in {"ok", "raised"})
       => DeliversLines(last'.calls, f, state[f].lineno, mark[f],
                        readlines(Appended(f)), Len(readlines(Appended(f))))
    ]_vars

\* ---- the line numbers of a file's history (hist starts empty, so a
\* property of hist that holds whenever hist changes holds always)
IsLine(e) == e.kind = "line"
\* no mark of the kinds ks lies between positions i and j of h
SameEpoch(h, i, j, ks) == \A m \in (i + 1)..(j - 1) : h[m].kind \notin ks
\* the numbers of h increase strictly between marks of the kinds ks
Increasing(h, ks) ==
  \A i \in 1..Len(h), j \in 1..Len(h) :
    (i < j /\ IsLine(h[i]) /\ IsLine(h[j]) /\ SameEpoch(h, i, j, ks))
    => h[i].no < h[j].no
\* the part of h that follows the opening of the tail cursor
FollowPart(h) ==
  IF \E i \in 1..Len(h) : h[i] = OpenMark
  THEN SubSeq(h, (CHOOSE i \in 1..Len(h) :
                    h[i] = OpenMark /\ \A j \in 1..(i - 1) : h[j] # OpenMark) + 1,
              Len(h))
  ELSE <<>>
NoRepeat(h) ==
  \A i \in 1..Len(h), j \in 1..Len(h) :
    (i < j /\ IsLine(h[i]) /\ IsLine(h[j])) => h[i].no # h[j].no
Positive(h) == \A i \in 1..Len(h) : IsLine(h[i]) => h[i].no >= 1

\* the sweep of f finds the file there, smaller than its last known size
SeesShrunk(f) ==
  /\ SweepStep(f) /\ last'.result # "stat_error"
  /\ fs[f].ino # 0 /\ Len(fs[f].data) < state[f].stat[2]

\* C2 as stated: a sweep that finds the file smaller than its last known
\* size (and can reopen it) resets the line counter to 0, later deliveries
\* are of content written after the reset, and over the whole follow session
\* no line number of the file is negative or emitted twice.
C2_AsStated ==
  [][\A f \in Names :
       /\ (SeesShrunk(f) /\ last'.result # "unopened")
          => (f \in Watched' /\ state'[f].lineno = 0)
       /\ SweepStep(f) => \A i \in 1..Len(last'.calls) :
                            last'.calls[i].from >= old'[f]
       /\ hist'[f] # hist[f]
          => /\ Positive(FollowPart(hist'[f]))
             /\ NoRepeat(FollowPart(hist'[f]))
    ]_vars

\* C2 (amended): a sweep whose stat finds the file smaller than its last
\* known size closes the handle and reopens the file: the file is dropped
\* when reopening fails, else its line counter is 0 and its cursor at the
\* current end; every later delivery is of content written after the reset;
\* line numbers are >= 1 and none is repeated between two resets.
C2_Rotation ==
  [][\A f \in Names :
       /\ SeesShrunk(f)
          => IF last'.result = "unopened"
             THEN f \notin Watched'
             ELSE /\ f \in Watched' /\ last'.reopened
                  /\ state'[f].lineno = 0
                  /\ state'[f].pos = Len(fs'[f].data)
       /\ SweepStep(f) => \A i \in 1..Len(last'.calls) :
                            last'.calls[i].from >= old'[f]
       /\ hist'[f] # hist[f]
          => /\ Positive(FollowPart(hist'[f]))
             /\ Increasing(FollowPart(hist'[f]), {"reset"})
    ]_vars

\* after a reset, a line written after it was delivered
C2_Witness ==
  /\ last.op = "sweep" /\ last.calls # <<>>
  /\ \E i \in 1..Len(hist[last.file]) : hist[last.file][i] = ResetMark
  /\ last.calls[1].no = 1

\* C3: for each file the line numbers handed to the pipeline over the whole
\* run (batch pass, then follow mode) are 1-based and strictly increasing,
\* and restart only at a reset of the tail cursor after truncation/rotation.
C3_AsStated ==
  [][\A f \in Names : Positive(hist'[f]) /\ Increasing(hist'[f], {"reset"})
    ]_vars

\* ---- whole lines
\* the end of the last complete line of data, 0 when there is none
LastLineEnd(data) ==
  IF \E i \in 1..Len(data) : data[i] = NL
  THEN CHOOSE i \in 1..Len(data) :
         data[i] = NL /\ \A j \in (i + 1)..Len(data) : data[j] # NL
  ELSE 0
Max(a, b) == IF a > b THEN a ELSE b
\* the call c hands over one whole line of data (or, at the offset open was
\* at, the rest of the line open found begun)
WholeLine(c, data, open) ==
  /\ c.from = open \/ (c.from >= 1 /\ data[c.from] = NL)
  /\ c.len >= 1 /\ data[c.from + c.len] = NL
  /\ \A i \in (c.from + 1)..(c.from + c.len - 1) : data[i] # NL

\* C4: for a watched file never truncated or removed, whatever the appends,
\* sweeps and handler outcomes, once a sweep (its stat and read succeeding)
\* has run, every line completed since the open was handed to the pipeline
\* exactly once, whole and in file order.
C4_AsStated ==
  [][\A f \in Names :
       (SweepStep(f) /\ intact[f] /\ last'.result \in {"ok", "raised"})
       => /\ \A i \in 1..Len(last'.calls) :
               WholeLine(last'.calls[i], fs[f].data, old[f])
          /\ cov'[f] = Max(old[f], LastLineEnd(fs[f].data))
    ]_vars

\* C5: when the stat of a sweep finds a watched file gone, its handle is
\* closed and it leaves the watched set; the other watched files keep their
\* cursors, the rest of the pass still sweeps them, and every pass starts
\* from the whole watched set.
C5_Vanished ==
  [][/\ \A f \in Names :
          (SweepStep(f) /\ fs[f].ino = 0 /\ last'.result # "stat_error")
          => /\ f \notin Watched'
             /\ fhs'[f] = 0
             /\ Watched' = Watched \ {f}
             /\ \A g \in Watched' : state'[g] = state[g] /\ fhs'[g] = fhs[g]
             /\ todo' = Tail(todo) /\ pc' = "sweep"
     /\ (pc = "poll" /\ pc' = "sweep")
        => {todo'[i] : i \in 1..Len(todo')} = Watched'
    ]_vars

\* a.log was found gone and dropped while b.log is still to be swept
C5_Witness ==
  /\ last.op = "sweep" /\ last.result = "vanished"
  /\ last.file \notin Watched
  /\ todo # <<>> /\ Head(todo) \in Watched

\* the non-gzip files of the FileSet
NonGzipFiles == {files[i] : i \in 1..Len(files)} \ {f \in Names : IsGz(f)}

\* C6: in a follow session the watched set is a subset of the non-gzip files
\* of the FileSet resolved at start, the FileSet never changes, and once
\* the initial opens are done the watched set never gains a member.
C6_WatchedSet ==
  [][/\ Watched' \subseteq NonGzipFiles
     /\ files' = files
     /\ pc \notin {"batch", "open"} => Watched' \subseteq Watched
    ]_vars

\* a dropped file is back under its name, another file was created, the gzip
\* file is there, and sweeps go on without watching any of them
C6_Witness ==
  /\ last.op = "sweep" /\ last.result = "ok"
  /\ fs["a.log"].ino # 0 /\ "a.log" \notin Watched
  /\ fs["d.log"].ino # 0 /\ fs["c.gz"].ino # 0
  /\ Watched = {"b.log"}

\* C7: a cursor the tail engine opens is at the file's end with line counter
\* 0; the tail engine never delivers content that was in the file when the
\* cursor was opened, nor content the batch pass has read.
C7_OpensAtEnd ==
  [][\A f \in Names :
       /\ (f \notin Watched /\ f \in Watched')
          => /\ state'[f].pos = Len(fs'[f].data)
             /\ state'[f].lineno = 0
       /\ (SweepStep(f) /\ last'.reopened /\ f \in Watched')
          => /\ state'[f].pos = Len(fs'[f].data)
             /\ state'[f].lineno = 0
       /\ SweepStep(f)
          => \A i \in 1..Len(last'.calls) :
               /\ last'.calls[i].from >= old'[f]
               /\ last'.calls[i].from >= batched'[f]
    ]_vars

\* a file that held a line at open (read by the batch pass) got another
\* line, and the tail engine delivered just that one
C7_Witness ==
  /\ last.op = "sweep" /\ last.calls # <<>>
  /\ old[last.file] >= 1 /\ batched[last.file] >= 1
  /\ last.calls[1].from >= 1

\* ============================================ the record sink on its own
\* main with the sink in each format: process_line hands records to
\* emit_record, from the batch pass (an exception ends the run) or from the
\* tail engine's callback (_tail_files catches the exception and warns).
TailVars == <<fs, nextIno, orphan, pc, files, idx, state, fhs, todo, last,
              hist, intact, mark, old, batched, cov, ops>>

SinkSpecInit ==
  /\ TailInit
  /\ \E format \in {"console", "csv", "jsonl"} : sink = SinkInit(format)
  /\ call = NoCall /\ run = NoRun

Emit(rec, inFollow) ==
  /\ sink.status = "open" /\ sink.matched < MaxRecords
  /\ LET k == emit_record(sink, rec)
     IN  sink' = IF k.raised /\ ~inFollow
                 THEN [k EXCEPT !.status = "crashed"]
                 ELSE k
  /\ UNCHANGED <<TailVars, call, run>>

\* "if out_fh and out_fh is not sys.stdout: out_fh.close()" and the summary
Close ==
  /\ sink.status = "open"
  /\ sink' = [sink EXCEPT !.status = "closed"]
  /\ UNCHANGED <<TailVars, call, run>>

SinkNext ==
  \/ \E rec \in Records, inFollow \in BOOLEAN : Emit(rec, inFollow)
  \/ Close

SinkSpec == SinkSpecInit /\ [][SinkNext]_vars

\* the step is a call of emit_record with the sink in the given format
EmitStep(format) ==
  sink.out_format = format /\ sink'.matched = sink.matched + 1
\* what the step wrote
NewOutput == SubSeq(sink'.out, Len(sink.out) + 1, Len(sink'.out))
IsPrefix(a, b) == Len(a) <= Len(b) /\ SubSeq(b, 1, Len(a)) = a

\* C8: the CSV header is written once, at the first record, as file, lineno,
\* timestamp, reason, the sorted field names of that record, line; every later
\* record is written as one row of that shape, one with a field name the
\* header lacks too (that field left out), and no error occurs.
C8_AsStated ==
  [][EmitStep("csv") =>
       LET rec == sink'.rec[1]
           header == <<"file", "lineno", "timestamp", "reason">>
                     \o sorted(Keys(rec.extra_fields)) \o <<"line">>
       IN  /\ ~sink'.raised
           /\ IF sink.matched = 0
              THEN /\ Len(sink'.out) = 2
                   /\ sink'.out[1] = CsvHeader(header)
                   /\ Len(sink'.out[2].csv) = Len(header)
              ELSE /\ IsPrefix(sink.out, sink'.out)
                   /\ Len(NewOutput) = 1
                   /\ Len(NewOutput[1].csv) = Len(sink.out[1].csv)
    ]_vars

\* C9: parsing the JSON object the jsonl sink wrote for a record gives back
\* the record's file, lineno, timestamp, reason and line and each of its
\* extracted fields, unmodified.
C9_AsStated ==
  [][EmitStep("jsonl") =>
       LET rec == sink'.rec[1]
           d == json_loads(NewOutput[1])
           none == StrV("?")
       IN  /\ Get(d, "file", none) = StrV(rec.fpath)
           /\ Get(d, "lineno", none) = IntV(rec.lineno)
           /\ Get(d, "timestamp", none) = StrV(rec.ts_out)
           /\ Get(d, "reason", none) = StrV(rec.reason)
           /\ Get(d, "line", none) = StrV(rec.line)
           /\ \A i \in 1..Len(rec.extra_fields) :
                Get(d, rec.extra_fields[i][1], none) = rec.extra_fields[i][2]
    ]_vars

\* C10: each emit_record of the jsonl sink adds, when it is called, one line
\* to the output: a single JSON object and then a newline character; so
\* after k records the output is k such lines in emission order.
C10_AsStated ==
  [][EmitStep("jsonl") =>
       /\ IsPrefix(sink.out, sink'.out)
       /\ Len(NewOutput) = 2
       /\ DOMAIN NewOutput[1] = {"json"}
       /\ NewOutput[2] = [ch |-> NL]
    ]_vars

\* ================================================ the text of the lines
\* a line without its terminator, every other character kept
StripTerminator(raw) ==
  IF raw # <<>> /\ raw[Len(raw)] = NL THEN SubSeq(raw, 1, Len(raw) - 1) ELSE raw
\* the content the step read its lines from: the file's for the batch pass,
\* the handle's for a sweep
ReadFrom(f) ==
  IF last'.op = "sweep" /\ f \in Watched' /\ state'[f].fh # fs[f].ino
  THEN orphan[f]
  ELSE fs[f].data

\* C11: the batch reader and the tail reader hand over each line as its text
\* with the line terminator removed and every other character kept, for
\* terminated lines and for a last unterminated line alike.
C11_AsStated ==
  [][\A f \in Names :
       (last'.op \in {"batch", "sweep"} /\ last'.file = f)
       => \A i \in 1..Len(last'.calls) :
            LET c == last'.calls[i]
            IN  c.text = StripTerminator(
                           SubSeq(ReadFrom(f), c.from + 1, c.from + c.len))
    ]_vars

\* ================================== the matcher and the time window
\* Lines are strings over two letters. A compiled pattern is a literal with
\* or without the anchor "^"; re.escape makes a keyword an unanchored literal.
MaxLine == 2
MaxPatterns == 2
MaxTime == 2
LineChars == {"a", "b"}
Strings(n) == UNION {[1..k -> LineChars] : k \in 0..n}
Lines == Strings(MaxLine)
Keywords == {<<"a">>, <<"b">>}
Regexes == {[anchored |-> TRUE, s |-> <<"a">>], [anchored |-> FALSE, s |-> <<"b">>]}
Lists(S) == UNION {[1..k -> S] : k \in 0..MaxPatterns}

\* compile_patterns: re.compile(re.escape(k)) for keywords, re.compile(r)
\* for regexes
compile_patterns(keywords, regexes) ==
  [kw |-> [i \in 1..Len(keywords) |-> [anchored |-> FALSE, s |-> keywords[i]]],
   rx |-> regexes]

\* p.search(line)
search(p, line) ==
  \E i \in 0..(Len(line) - Len(p.s)) :
    /\ p.anchored => i = 0
    /\ SubSeq(line, i + 1, i + Len(p.s)) = p.s

\* the reason strings "kw:<pattern>" and "re:<pattern>"
Reason(prefix, p) == [prefix |-> prefix, pattern |-> p]
NoReason == [prefix |-> "None", pattern |-> [anchored |-> FALSE, s |-> <<>>]]
Reasons(prefix, ps, line) ==
  LET hits == SelectSeq(ps, LAMBDA p : search(p, line))
  IN  [i \in 1..Len(hits) |-> Reason(prefix, hits[i])]
any(ps, line) == \E i \in 1..Len(ps) : search(ps[i], line)

\* a variant whose reasons list the regexes before the keywords; C12 tells
\* the two apart
match_line_RegexFirst(line, kw_patterns, rx_patterns, match_mode) ==
  LET reasons == Reasons("re", rx_patterns, line)
                 \o Reasons("kw", kw_patterns, line)
  IN  IF reasons = <<>> THEN [ok |-> FALSE, reason |-> NoReason]
      ELSE IF match_mode = "all"
      THEN LET ok == /\ kw_patterns # <<>> => any(kw_patterns, line)
                     /\ rx_patterns # <<>> => any(rx_patterns, line)
           IN  [ok |-> ok, reason |-> IF ok THEN reasons[1] ELSE NoReason]
      ELSE [ok |-> TRUE, reason |-> reasons[1]]
\* a variant whose all mode leaves out the regex category; C13 tells the two
\* apart
match_line_KeywordsOnly(line, kw_patterns, rx_patterns, match_mode) ==
  LET reasons == Reasons("kw", kw_patterns, line)
                 \o Reasons("re", rx_patterns, line)
  IN  IF reasons = <<>> THEN [ok |-> FALSE, reason |-> NoReason]
      ELSE IF match_mode = "all"
      THEN LET ok == kw_patterns # <<>> => any(kw_patterns, line)
           IN  [ok |-> ok, reason |-> IF ok THEN reasons[1] ELSE NoReason]
      ELSE [ok |-> TRUE, reason |-> reasons[1]]
match_line(line, kw_patterns, rx_patterns, match_mode) ==
  LET reasons == Reasons("kw", kw_patterns, line)
                 \o Reasons("re", rx_patterns, line)
  IN  IF reasons = <<>> THEN [ok |-> FALSE, reason |-> NoReason]
      ELSE IF match_mode = "all"
      THEN LET ok == /\ kw_patterns # <<>> => any(kw_patterns, line)
                     /\ rx_patterns # <<>> => any(rx_patterns, line)
           IN  [ok |-> ok, reason |-> IF ok THEN reasons[1] ELSE NoReason]
      ELSE [ok |-> TRUE, reason |-> reasons[1]]

\* Times are 0..MaxTime. extract_timestamp returns None, a zone-aware
\* datetime (assume_tz utc or local) or a naive one (any other assume_tz);
\* parse_dt returns None or a zone-aware datetime.
NoTime == [kind |-> "None", t |-> 0]
Aware(t) == [kind |-> "aware", t |-> t]
Naive(t) == [kind |-> "naive", t |-> t]
Timestamps == {NoTime} \cup {Aware(t) : t \in 0..MaxTime}
                       \cup {Naive(t) : t \in 0..MaxTime}
Bounds == {NoTime} \cup {Aware(t) : t \in 0..MaxTime}
\* "a < b" of two datetimes raises TypeError for a naive and an aware one
Comparable(a, b) == a.kind = b.kind

\* within_window: "True", "False", or the exception it raises
within_window(ts, since, until) ==
  IF since = NoTime /\ until = NoTime THEN "True"
  ELSE IF ts = NoTime THEN "False"
  ELSE IF since # NoTime /\ ~Comparable(ts, since) THEN "TypeError"
  ELSE IF since # NoTime /\ ts.t < since.t THEN "False"
  ELSE IF until # NoTime /\ ~Comparable(ts, until) THEN "TypeError"
  ELSE IF until # NoTime /\ ts.t > until.t THEN "False"
  ELSE "True"

\* ---- the two functions applied to every argument within the bounds
MatchLine ==
  /\ call = NoCall
  /\ \E line \in Lines, keywords \in Lists(Keywords), regexes \in Lists(Regexes),
        match_mode \in {"any", "all"} :
       LET c == compile_patterns(keywords, regexes)
       IN  call' = [fn |-> "match_line", line |-> line, kw |-> c.kw,
                    rx |-> c.rx, mode |-> match_mode,
                    result |-> match_line(line, c.kw, c.rx, match_mode)]
  /\ UNCHANGED <<TailVars, sink, run>>

WithinWindow ==
  /\ call = NoCall
  /\ \E ts \in Timestamps, since \in Bounds, until \in Bounds :
       call' = [fn |-> "within_window", ts |-> ts, since |-> since,
                until |-> until, result |-> within_window(ts, since, until)]
  /\ UNCHANGED <<TailVars, sink, run>>

Return ==
  /\ call # NoCall
  /\ call' = NoCall
  /\ UNCHANGED <<TailVars, sink, run>>

PureNext ==
  \/ MatchLine
  \/ WithinWindow
  \/ Return

PureSpec == Init /\ [][PureNext]_vars

\* the patterns in the order keywords (declared order) then regexes
Combined(kw, rx) ==
  [i \in 1..(Len(kw) + Len(rx)) |->
     IF i <= Len(kw) THEN Reason("kw", kw[i]) ELSE Reason("re", rx[i - Len(kw)])]
Hits(c, line) == {i \in 1..Len(c) : search(c[i].pattern, line)}
FirstHit(c, line) ==
  c[CHOOSE i \in Hits(c, line) : \A j \in Hits(c, line) : i <= j]

\* C12: in any mode match_line reports a match iff at least one keyword or
\* regex pattern hits the line, and the reason is then the first hitting
\* pattern in the order keywords, then regexes.
C12_AnyMode ==
  (call.fn = "match_line" /\ call.mode = "any")
  => LET c == Combined(call.kw, call.rx)
     IN  /\ call.result.ok <=> Hits(c, call.line) # {}
         /\ call.result.ok => call.result.reason = FirstHit(c, call.line)

\* a line that a keyword and a regex hit: the reason is the keyword, though
\* the regex precedes it in the line
C12_Witness ==
  /\ call.fn = "match_line" /\ call.mode = "any"
  /\ call.line = <<"b", "a">>
  /\ call.kw # <<>> /\ call.rx # <<>>
  /\ call.result.ok /\ call.result.reason.prefix = "kw"
  /\ search(call.rx[1], call.line)

C14_AsStated ==
  call.fn = "within_window"
  => LET passes ==
           \/ call.since = NoTime /\ call.until = NoTime
           \/ /\ call.ts # NoTime
              /\ call.since # NoTime => call.ts.t >= call.since.t
              /\ call.until # NoTime => call.ts.t <= call.until.t
     IN  call.result = IF passes THEN "True" ELSE "False"

\* ============================================== main, line by line
\* One run of main with one configuration: keyword "a", mode any, --since 1,
\* timestamps read as UTC. A line is its one-character text, what
\* extract_timestamp finds in it and the named groups the field patterns
\* capture in it. The tail engine is seen here only as the source of the
\* lines it passes to the callback.
MaxScan == 3
MainConfig ==
  [patterns |-> compile_patterns(<<<<"a">>>>, <<>>), match_mode |-> "any",
   since |-> Aware(1), until |-> NoTime]
LineInputs ==
  [text : {<<"a">>, <<"b">>}, ts : {NoTime, Aware(0), Aware(2)},
   fields : {{}, {"a"}}]
\* strings of the record: the line, ts.isoformat(), the reason
Str(text) == IF text = <<>> THEN "" ELSE text[1]
isoformat(ts) == IF ts = NoTime THEN "" ELSE IF ts.t = 0 THEN "t0" ELSE "t2"
ReasonStr(r) == IF r.pattern.s = <<"a">> THEN "kw:a" ELSE "kw:b"

\* a variant of process_line without the time-window test; C17 tells the
\* two apart
process_line_NoWindow(k, fpath, lineno, line) ==
  LET m == match_line(line.text, MainConfig.patterns.kw,
                      MainConfig.patterns.rx, MainConfig.match_mode)
  IN  IF ~m.ok THEN [sink |-> k, raised |-> FALSE, extracted |-> FALSE]
      ELSE LET e == emit_record(k, [fpath |-> fpath, lineno |-> lineno,
                                    ts_out |-> isoformat(line.ts),
                                    reason |-> ReasonStr(m.reason),
                                    line |-> Str(line.text),
                                    extra_fields |-> ExtraFields(line.fields)])
           IN  [sink |-> e, raised |-> e.raised, extracted |-> TRUE]
\* process_line(fpath, lineno, line) on sink k: the sink after it, whether
\* it raised, whether the field patterns were applied
process_line(k, fpath, lineno, line) ==
  LET w == within_window(line.ts, MainConfig.since, MainConfig.until)
      m == match_line(line.text, MainConfig.patterns.kw,
                      MainConfig.patterns.rx, MainConfig.match_mode)
  IN  IF w = "TypeError" THEN [sink |-> k, raised |-> TRUE, extracted |-> FALSE]
      ELSE IF w = "False" THEN [sink |-> k, raised |-> FALSE, extracted |-> FALSE]
      ELSE IF ~m.ok THEN [sink |-> k, raised |-> FALSE, extracted |-> FALSE]
      ELSE LET e == emit_record(k, [fpath |-> fpath, lineno |-> lineno,
                                    ts_out |-> isoformat(line.ts),
                                    reason |-> ReasonStr(m.reason),
                                    line |-> Str(line.text),
                                    extra_fields |-> ExtraFields(line.fields)])
           IN  [sink |-> e, raised |-> e.raised, extracted |-> TRUE]

NoGate == [line |-> <<>>, extracted |-> FALSE, raised |-> FALSE, from |-> ""]
Gate(line, r, from) ==
  [line |-> <<line>>, extracted |-> r.extracted, raised |-> r.raised,
   from |-> from]

\* a variant that prepares the output before it looks at the FileSet; C15
\* tells the two apart
start_OutputFirst(r, nfiles, format) ==
  LET opened == [r EXCEPT !.nfiles = nfiles,
                          !.outfile = IF format \in {"csv", "jsonl"} /\ r.has_path
                                      THEN "open" ELSE "none"]
  IN  IF nfiles = 0
      THEN [opened EXCEPT !.pc = "exited", !.status = "exit 1"]
      ELSE [opened EXCEPT !.pc = "batch"]
\* main from find_files to "Prepare output": sys.exit(1) on an empty
\* FileSet, else the output file is opened for writing when a path is given
start(r, nfiles, format) ==
  IF nfiles = 0
  THEN [r EXCEPT !.nfiles = nfiles, !.pc = "exited", !.status = "exit 1"]
  ELSE [r EXCEPT !.nfiles = nfiles, !.pc = "batch",
                 !.outfile = IF format \in {"csv", "jsonl"} /\ r.has_path
                             THEN "open" ELSE "none"]

\* the end of main: close the output file, print the summary
finish(r, k) ==
  [r EXCEPT !.pc = "done", !.status = "exit 0",
            !.outfile = IF @ = "open" THEN "closed" ELSE @,
            !.summary = <<[files |-> r.nfiles, total |-> r.total,
                           matched |-> k.matched]>>,
            !.gate = NoGate]

MainInit ==
  /\ TailInit /\ call = NoCall
  /\ \E format \in {"console", "csv", "jsonl"} : sink = SinkInit(format)
  /\ \E has_path \in BOOLEAN :
       run = [pc |-> "start", has_path |-> has_path, nfiles |-> 0,
              outfile |-> "none", total |-> 0, piped |-> 0, tailno |-> 0,
              status |-> "running", summary |-> <<>>, gate |-> NoGate]

Start ==
  /\ run.pc = "start"
  /\ \E nfiles \in 0..1 : run' = start(run, nfiles, sink.out_format)
  /\ UNCHANGED <<TailVars, sink, call>>

\* "for f, lineno, line in iter_lines(...): total += 1; process_line(...)"
BatchLine(line) ==
  /\ run.pc = "batch" /\ run.piped < MaxScan
  /\ LET r == process_line(sink, "a.log", run.total + 1, line)
     IN  /\ sink' = IF r.raised THEN [r.sink EXCEPT !.status = "crashed"]
                    ELSE r.sink
         /\ run' = [run EXCEPT !.total = @ + 1, !.piped = @ + 1,
                               !.gate = Gate(line, r, "batch"),
                               !.pc = IF r.raised THEN "crashed" ELSE @,
                               !.status = IF r.raised THEN "traceback" ELSE @]
  /\ UNCHANGED <<TailVars, call>>

\* the initial pass is over: follow mode, or the end of main
BatchEnd ==
  /\ run.pc = "batch"
  /\ \E follow \in BOOLEAN :
       IF follow
       THEN run' = [run EXCEPT !.pc = "follow", !.gate = NoGate] /\ sink' = sink
       ELSE run' = finish(run, sink) /\ sink' = [sink EXCEPT !.status = "closed"]
  /\ UNCHANGED <<TailVars, call>>

\* the tail engine passes a new line to cb; what cb raises is caught there
TailLine(line) ==
  /\ run.pc = "follow" /\ run.piped < MaxScan
  /\ LET r == process_line(sink, "a.log", run.tailno + 1, line)
     IN  /\ sink' = r.sink
         /\ run' = [run EXCEPT !.tailno = @ + 1, !.piped = @ + 1,
                               !.gate = Gate(line, r, "follow")]
  /\ UNCHANGED <<TailVars, call>>

\* KeyboardInterrupt in follow mode: "except KeyboardInterrupt: pass"
Interrupt ==
  /\ run.pc = "follow"
  /\ run' = finish(run, sink)
  /\ sink' = [sink EXCEPT !.status = "closed"]
  /\ UNCHANGED <<TailVars, call>>

MainNext ==
  \/ Start
  \/ \E line \in LineInputs : BatchLine(line)
  \/ BatchEnd
  \/ \E line \in LineInputs : TailLine(line)
  \/ Interrupt

MainSpec == MainInit /\ [][MainNext]_vars

\* C15: with format csv or jsonl and an output path, a run whose FileSet is
\* not empty has created the output file from the start of the batch pass on
\* and it stays, matches or not; a run whose FileSet is empty ends with exit
\* status 1, no output file created and no line processed.
C15_OutputFile ==
  /\ (/\ run.pc \in {"batch", "follow", "crashed", "done"}
      /\ sink.out_format \in {"csv", "jsonl"} /\ run.has_path)
     => run.nfiles > 0 /\ run.outfile \in {"open", "closed"}
  /\ (run.pc \notin {"none", "start"} /\ run.nfiles = 0)
     => /\ run.pc = "exited" /\ run.status = "exit 1"
        /\ run.outfile = "none"
        /\ run.piped = 0 /\ run.total = 0 /\ sink.out = <<>>

\* a finished run that scanned lines, matched none, and left the output file
C15_Witness ==
  /\ run.pc = "done" /\ run.piped > 0 /\ sink.matched = 0
  /\ sink.out_format = "jsonl" /\ run.has_path
  /\ run.outfile = "closed" /\ sink.out = <<>>

\* the step passes a line through process_line (initial pass or callback)
PipelineStep == run.pc \in {"batch", "follow"} /\ run'.piped = run.piped + 1

\* C17: process_line hands exactly one record to the sink (one emit_record,
\* with the line's record) iff the line passes the time window and the
\* matcher reports a match; the field patterns are applied only then; a
\* rejected line leaves the matched count and the sink state unchanged; the
\* initial pass and the tail engine's callback alike.
C17_Gating ==
  [][PipelineStep =>
       LET line == run'.gate.line[1]
           passes ==
             /\ within_window(line.ts, MainConfig.since, MainConfig.until) = "True"
             /\ match_line(line.text, MainConfig.patterns.kw,
                           MainConfig.patterns.rx, MainConfig.match_mode).ok
       IN  IF passes
           THEN /\ sink'.matched = sink.matched + 1
                /\ sink'.rec # <<>> /\ sink'.rec[1].line = Str(line.text)
                /\ sink'.rec[1].ts_out = isoformat(line.ts)
                /\ Keys(sink'.rec[1].extra_fields) = line.fields
                /\ run'.gate.extracted
           ELSE /\ sink' = sink
                /\ ~run'.gate.extracted
    ]_vars

\* the callback rejected a line that matches but lies before the window,
\* after a record was written: the CSV output is as it was
C17_Witness ==
  /\ run.pc = "follow" /\ run.gate.from = "follow"
  /\ run.gate.line # <<>> /\ ~run.gate.extracted
  /\ run.gate.line[1].text = <<"a">> /\ run.gate.line[1].ts = Aware(0)
  /\ sink.out_format = "csv" /\ sink.matched = 1 /\ Len(sink.out) = 2

\* the records in the output
RecordsWritten(k) ==
  IF k.out_format = "csv"
  THEN IF k.out = <<>> THEN 0 ELSE Len(k.out) - 1
  ELSE Cardinality({i \in 1..Len(k.out) :
                      DOMAIN k.out[i] \in {{"console"}, {"json"}}})

\* C20: at the end of a run the summary's lines-scanned count is the number
\* of lines passed through the pipeline (initial pass and follow mode) and
\* its matches count is the number of records written to the sink; always
\* matched <= scanned.
C20_AsStated ==
  /\ run.pc = "done"
     => /\ run.summary[1].total = run.piped
        /\ run.summary[1].matched = RecordsWritten(sink)
  /\ run.pc # "none" => sink.matched <= run.total

\* --------------------------------------------------------------- C16
\* the step leaves the follow session
LeavesFollow ==
  pc \in {"open", "poll", "sweep"} /\ pc' \notin {"open", "poll", "sweep"}

\* C16: follow mode runs until it is cancelled. The polling loop is left by
\* no step but a cancellation, whether files are watched or not; after each
\* pass another pass can start, and a started pass can go on; the step of the
\* cancellation ends the polling, closes the output and reports the summary,
\* and nothing is polled afterwards.
C16_UntilCancelled ==
  /\ [](pc = "poll" => ENABLED (StartSweep /\ pc' = "sweep"))
  /\ [](pc = "sweep" /\ todo = <<>> => ENABLED Sleep)
  /\ [][/\ LeavesFollow
           => /\ last' = Cancelled
              /\ pc' = "done"
              /\ sink'.status = "closed"
        /\ pc = "done"
           => /\ pc' = "done"
              /\ <<state, fhs, hist, sink>>' = <<state, fhs, hist, sink>>]_vars

\* a session cancelled with an empty watched set, after a file was watched
C16_Witness ==
  /\ pc = "done" /\ last = Cancelled
  /\ sink.status = "closed"
  /\ Watched = {}
  /\ \E f \in Names : hist[f] # <<>> /\ OpenMark = hist[f][1]

\* --------------------------------------------------------------- C18
\* the step appended a reset mark to the history of f: its cursor was
\* closed and opened again
Reopened(f) ==
  /\ Len(hist'[f]) > Len(hist[f])
  /\ hist'[f][Len(hist[f]) + 1] = ResetMark

\* C18: a sweep closes and reopens the cursor of a file exactly when stat
\* returns a size strictly smaller than the last known size; the reopened
\* cursor is at the current end of the file with line counter 0 (a file that
\* cannot be reopened leaves the watched set). In every other sweep offset
\* and line counter do not decrease and the handle stays, and a sweep that
\* reads no new bytes changes nothing but the last known stat.
C18_Truncation ==
  [][\A f \in Names :
       SweepStep(f) =>
         /\ (SeesShrunk(f) <=> last'.reopened)
         /\ last'.reopened /\ f \in Watched'
            => /\ Reopened(f)
               /\ state'[f].fh = fs[f].ino
               /\ state'[f].pos = Len(fs[f].data)
               /\ state'[f].lineno = 0
         /\ last'.reopened /\ f \notin Watched'
            => last'.result = "unopened"
         /\ ~last'.reopened /\ f \in Watched'
            => /\ ~Reopened(f)
               /\ state'[f].fh = state[f].fh
               /\ state'[f].pos >= state[f].pos
               /\ state'[f].lineno >= state[f].lineno
               /\ state'[f].pos = state[f].pos
                  => state'[f] = [state[f] EXCEPT !.stat = state'[f].stat]
    ]_vars

\* a sweep found the file smaller and reopened it after lines of it had been
\* delivered in follow mode: the counter went back from a positive value to 0
C18_Witness ==
  /\ last.op = "sweep" /\ last.reopened /\ last.file \in Watched
  /\ state[last.file].lineno = 0
  /\ state[last.file].pos = Len(fs[last.file].data)
  /\ \E i \in 1..Len(hist[last.file]) :
       /\ hist[last.file][i].kind = "line"
       /\ i > 1 /\ hist[last.file][i - 1].kind \in {"line", "open"}
       /\ hist[last.file][Len(hist[last.file])] = ResetMark

\* --------------------------------------------------------------- C19
\* the step is the initial pass over one file
BatchStep == pc = "batch" /\ last'.op = "batch"

\* C19: the initial pass takes the files in FileSet order and ends only
\* after the last one. A file that cannot be opened or whose read fails gets
\* a warning: the lines read before the failure were handed to the pipeline
\* and stay so, no other file's lines are touched, and the pass goes on with
\* the next file of the FileSet.
C19_PerFileFailure ==
  /\ [](pc = "batch" /\ idx <= Len(files) => ENABLED BatchFile)
  /\ [][/\ BatchStep
           => /\ idx <= Len(files) /\ last'.file = files[idx]
              /\ idx' = idx + 1 /\ pc' = "batch" /\ files' = files
              /\ hist'[last'.file] = hist[last'.file] \o Numbers(last'.calls)
              /\ \A g \in Names \ {last'.file} : hist'[g] = hist[g]
              /\ last'.result \in {"open_error", "read_error"}
                 => /\ last'.calls
                       = LineCalls(last'.file,
                                   readlines(fs[last'.file].data),
                                   Len(last'.calls), 0, 0)
                    /\ sink' = sink
        /\ pc = "batch" /\ pc' # "batch" => idx > Len(files)
       ]_vars

\* the read of a file failed after a line of it, and files remain
C19_Witness ==
  /\ pc = "batch" /\ idx <= Len(files)
  /\ last.op = "batch" /\ last.result = "read_error"
  /\ last.calls # <<>>
  /\ hist[last.file] = Numbers(last.calls)

\* --------------------------------------------------------------- C21
\* the sweep of f ended in a warning: stat raised an error other than
\* file-not-found, the read raised, or a call of the per-line handler raised
WarnedSweep(f) ==
  SweepStep(f) /\ last'.result \in {"stat_error", "read_error", "raised"}

\* C21: a sweep of a watched file that ends in such a warning keeps the file
\* in the watched set with an open handle, leaves the watched set and the
\* cursors of the other files as they were, and the pass goes on with the
\* rest of its snapshot, every watched file of which is still to be swept.
C21_OtherErrors ==
  [][\A f \in Names :
       WarnedSweep(f)
       => /\ last'.file = f
          /\ f \in Watched'
          /\ Watched' = Watched
          /\ fhs' = fhs
          /\ state'[f].fh # 0
          /\ \A g \in Watched \ {f} : state'[g] = state[g]
          /\ pc' = "sweep"
          /\ todo' = Tail(todo)
    ]_vars

\* a watched file was swept with a warning and another watched file is
\* next in the same pass
C21_Witness ==
  /\ pc = "sweep" /\ last.op = "sweep"
  /\ last.result \in {"stat_error", "read_error", "raised"}
  /\ last.file \in Watched
  /\ todo # <<>> /\ Head(todo) \in Watched
====
